---- MODULE Spec2Model ----
(***************************************************************************)
(* Peugeot leasing monitor (src/monitor.py, src/config.py): the check      *)
(* cycle check_for_new_offers, the Seen-Set store load_seen_offers /       *)
(* save_seen_offers, the filter filter_offers_by_price and the offer id.   *)
(*                                                                         *)
(* Prices are integer cents.  Strings the program computes with (the       *)
(* parts of an offer id) are sequences of one-character strings.           *)
(***************************************************************************)
EXTENDS Integers, Sequences, FiniteSets, TLC

(***************************************************************************)
(* Bounds of the model.                                                    *)
(***************************************************************************)
NumPages == 2        \* pages the modelled site holds; later pages are empty
MaxLen == 2          \* offers on one page of the site
MaxCycles == 2       \* check cycles one process runs
MaxFilterLen == 2    \* offers in one input of the filter specification
MaxFaults == 1       \* failed reads, saves, deliveries and crashes in one run
MaxStoreLen == 2     \* ids in a store file of the store specification
MaxContainers == 2   \* containers, and class-matched elements, of one soup

(***************************************************************************)
(* Program constants (config.py defaults, in cents where a price).         *)
(***************************************************************************)
MIN_PRICE == 5000
MAX_PRICE == 20000
KM_ALLOWANCE == 15000
max_pages == 50
zero_range_pages == 10
few_offers == 10

\* Python's None: for a string field and for an integer field
None == <<"None">>
NoneInt == 0 - 1

Range(s) == {s[k] : k \in 1..Len(s)}

(***************************************************************************)
(* The offer id: extract_offer_details, lines 226-231.                     *)
(***************************************************************************)
Digits == <<"0", "1", "2", "3", "4", "5", "6", "7", "8", "9">>
UpperCase == <<"A", "H", "M", "S", "W">>
LowerCase == <<"a", "h", "m", "s", "w">>
WordChars == Range(Digits) \cup Range(UpperCase) \cup Range(LowerCase)
                \cup {"n", "o", "k", "_"}

RECURSIVE IntToStr(_)
IntToStr(n) ==
    IF n < 10 THEN <<Digits[n + 1]>>
    ELSE IntToStr(n \div 10) \o <<Digits[(n % 10) + 1]>>

\* f"{monthly_price:.2f}"
format_2f(cents) ==
    IntToStr(cents \div 100) \o <<".">>
        \o <<Digits[((cents % 100) \div 10) + 1], Digits[(cents % 10) + 1]>>

\* str(x or '')
str_or_empty(x) == IF x = None THEN <<>> ELSE x

\* '_'.join(unique_parts)
join_parts(parts) ==
    parts[1] \o <<"_">> \o parts[2] \o <<"_">> \o parts[3] \o <<"_">> \o parts[4]

\* .replace(' ', '_')
replace_spaces(s) == [k \in 1..Len(s) |-> IF s[k] = " " THEN "_" ELSE s[k]]

lower_char(c) ==
    IF \E k \in 1..Len(UpperCase) : UpperCase[k] = c
    THEN LowerCase[CHOOSE k \in 1..Len(UpperCase) : UpperCase[k] = c]
    ELSE c

\* .lower()
lower(s) == [k \in 1..Len(s) |-> lower_char(s[k])]

IsWordChar(c) == c \in WordChars

\* re.sub(r'[^\w_]', '', offer_id)
strip_non_word(s) == SelectSeq(s, IsWordChar)

offer_id(model, dealer, monthly_price, terms) ==
    strip_non_word(lower(replace_spaces(join_parts(
        <<str_or_empty(model), str_or_empty(dealer),
          format_2f(monthly_price), str_or_empty(terms)>>))))

\* the dict extract_offer_details returns (the fields the cycle reads)
make_offer(model, dealer, monthly_price, terms, km_per_year) ==
    [id |-> offer_id(model, dealer, monthly_price, terms),
     monthly_price |-> monthly_price,
     km_per_year |-> km_per_year]

(***************************************************************************)
(* The offer cards the modelled site can show.                             *)
(*   A  at exactly MAX_PRICE, the configured mileage                       *)
(*   B  at exactly MIN_PRICE, no mileage found                             *)
(*   C  one cent above MAX_PRICE                                           *)
(*   D  inside the price band, another mileage                             *)
(***************************************************************************)
CardNames == {"A", "B", "C", "D"}

CardTable == [name \in CardNames |->
    CASE name = "A" -> make_offer(<<"3", "0", "8", " ", "S", "W">>, <<"A", "H">>,
                                  MAX_PRICE, <<"2", "4", " ", "M", "/", "1", "5", "k", "m">>,
                                  KM_ALLOWANCE)
      [] name = "B" -> make_offer(<<"2", "0", "8">>, None, MIN_PRICE, None, NoneInt)
      [] name = "C" -> make_offer(<<"3", "0", "8", " ", "S", "W">>, <<"A", "H">>,
                                  MAX_PRICE + 1, <<"2", "4", " ", "M", "/", "1", "5", "k", "m">>,
                                  KM_ALLOWANCE)
      [] OTHER -> make_offer(<<"2", "0", "8">>, None, 13909,
                             <<"2", "4", " ", "M", "/", "2", "0", "k", "m">>, 20000)]

Card(name) == CardTable[name]

(***************************************************************************)
(* filter_offers_by_price, lines 336-355.                                  *)
(***************************************************************************)
\* variant: both bounds exclusive
price_strictly_in_range(offer) ==
    MIN_PRICE < offer.monthly_price /\ offer.monthly_price < MAX_PRICE

\* variant: the mileage is not looked at
km_any(offer) == TRUE

price_in_range(offer) ==
    MIN_PRICE <= offer.monthly_price /\ offer.monthly_price <= MAX_PRICE

km_matches(offer) ==
    IF offer.km_per_year # NoneInt THEN offer.km_per_year = KM_ALLOWANCE ELSE TRUE

RECURSIVE filter_offers_by_price(_)
filter_offers_by_price(offers) ==
    IF offers = <<>> THEN <<>>
    ELSE IF ~price_in_range(Head(offers)) THEN filter_offers_by_price(Tail(offers))
    ELSE IF ~km_matches(Head(offers)) THEN filter_offers_by_price(Tail(offers))
    ELSE <<Head(offers)>> \o filter_offers_by_price(Tail(offers))

(***************************************************************************)
(* The Seen-Set store: config.OFFERS_FILE as load_seen_offers and          *)
(* save_seen_offers see it.  A "valid" file holds the JSON list ids; a     *)
(* "partial" file is what open(..., 'w') followed by an incomplete dump    *)
(* leaves: truncated, unparseable text.                                    *)
(***************************************************************************)
MissingFile == [kind |-> "missing", ids |-> <<>>]
PartialFile == [kind |-> "partial", ids |-> <<>>]
ValidFile(ids) == [kind |-> "valid", ids |-> ids]

\* the orders list(seen_offers) can give
Orderings(S) ==
    {f \in [1..Cardinality(S) -> S] : \A j, k \in 1..Cardinality(S) : f[j] = f[k] => j = k}

\* variant: a failed read is not noticed and the ids of the file are returned
load_ignoring_read_error(f, readable) ==
    IF f.kind = "valid" THEN Range(f.ids) ELSE {}

\* variant: the ids are looked up under a key the file does not have
load_wrong_key(f, readable) == {}

\* load_seen_offers, lines 358-370; readable = FALSE: open or read raises OSError
load_seen_offers(f, readable) ==
    IF f.kind = "missing" THEN {}                  \* FileNotFoundError
    ELSE IF ~readable THEN {}                      \* except Exception
    ELSE IF f.kind = "partial" THEN {}             \* JSONDecodeError
    ELSE Range(f.ids)                              \* set(data.get('seen_offers', []))

SaveOutcomes == {"ok", "open_error", "write_error"}

\* variant: nothing is written
save_not_written(f, seen, outcome) == {f}

\* save_seen_offers, lines 373-381: the files one call can leave
save_seen_offers(f, seen, outcome) ==
    IF outcome = "open_error" THEN {f}             \* open raised: file untouched
    ELSE IF outcome = "write_error" THEN {PartialFile}   \* truncated, dump raised
    ELSE {ValidFile(ids) : ids \in Orderings(seen)}

\* the ids a reader finds in the store
StoreIds(f) == IF f.kind = "valid" THEN Range(f.ids) ELSE {}

(***************************************************************************)
(* The site: what requests.get and BeautifulSoup return for a page.        *)
(*   status     "ok", or "error" (RequestException: network, timeout,      *)
(*              raise_for_status)                                          *)
(*   offers     the cards get_offers_from_page extracts, in order          *)
(*   next_link  the next-page anchor: "absent", "enabled" or "disabled"    *)
(*   page_info  <<current, total>> of a "<current> von <total>" text, or   *)
(*              <<>>                                                       *)
(* A page is fixed once it has been fetched: the site does not change      *)
(* while the process runs.                                                 *)
(***************************************************************************)
Unfetched == [status |-> "unfetched", offers |-> <<>>, next_link |-> "absent", page_info |-> <<>>]
ErrorPage == [status |-> "error", offers |-> <<>>, next_link |-> "absent", page_info |-> <<>>]
EmptyPage == [status |-> "ok", offers |-> <<>>, next_link |-> "absent", page_info |-> <<>>]

OfferLists == UNION {[1..n -> CardNames] : n \in 0..MaxLen}

Contents ==
    {ErrorPage} \cup
    {[status |-> "ok", offers |-> o, next_link |-> n, page_info |-> <<>>] :
        o \in OfferLists, n \in {"absent", "enabled"}}

\* get_offers_from_page(soup, base_url): the extracted offer dicts
get_offers_from_page(soup) == [k \in 1..Len(soup.offers) |-> Card(soup.offers[k])]

\* variant: the page indicator is not looked at
next_page_by_count(soup, n_offers) ==
    IF soup.next_link # "absent"
    THEN soup.next_link # "disabled"
    ELSE ~(n_offers < few_offers)

\* lines 531-551: TRUE when the walker reaches "page += 1"
next_page_wanted(soup, n_offers) ==
    IF soup.next_link # "absent"
    THEN soup.next_link # "disabled"
    ELSE IF soup.page_info # <<>> /\ soup.page_info[1] >= soup.page_info[2]
         THEN FALSE
         ELSE ~(n_offers < few_offers)

\* variant: no early stop
stops_never(page_offers, pg, filtered_total) == FALSE

\* lines 492-502: the two early stops
stops_early(page_offers, pg, filtered_total) ==
    \/ \A k \in 1..Len(page_offers) : page_offers[k].monthly_price > MAX_PRICE
    \/ pg > zero_range_pages /\ filtered_total = 0

\* variant: the new offers in reverse order
unseen_reversed(offers, seen) ==
    LET NotSeen(offer) == offer.id \notin seen
        fresh == SelectSeq(offers, NotSeen)
    IN [k \in 1..Len(fresh) |-> fresh[Len(fresh) + 1 - k]]

\* variant: no offer is held back
unseen_all(offers, seen) == offers

\* variant: only the first unseen offer of a page counts as new
unseen_first(offers, seen) ==
    LET new == SelectSeq(offers, LAMBDA offer : offer.id \notin seen)
    IN IF new = <<>> THEN new ELSE <<Head(new)>>

\* line 508
unseen(offers, seen) ==
    LET NotSeen(offer) == offer.id \notin seen IN SelectSeq(offers, NotSeen)

Ids(offers) == {offers[k].id : k \in 1..Len(offers)}

(***************************************************************************)
(* State.                                                                  *)
(***************************************************************************)
VARIABLES
    file,             \* config.OFFERS_FILE
    site,             \* the pages of the site, as far as fetched
    pc,               \* where the process is
    cycle,            \* check cycles started by this process
    seen_offers,      \* check_for_new_offers' local seen_offers
    page,             \* its page
    total_filtered,   \* its total_filtered
    new_page_offers,  \* its new_page_offers
    idx,              \* the notification loop's position in new_page_offers
    sent,             \* history: send_discord_notification calls of this cycle
    pagelog,          \* history: pages this cycle extracted, with the Seen-Set then
    loaded,           \* history: what load_seen_offers returned to this cycle
    read_ok,          \* history: this cycle's load could read the file
    file_at_start,    \* history: the store when this cycle began
    saves_ok,         \* history: every save of this cycle succeeded
    prev,             \* history: the cycle before this one
    notified,         \* history: ids an earlier cycle of this process notified
    save_failed,      \* history: a save of this process failed
    undelivered,      \* history: ids whose delivery failed in an earlier cycle
    store_intact,     \* history: no load or save of this process failed
    before_crash,     \* history: the store before the save the process died in
    faults,           \* history: failed reads, saves, deliveries and crashes so far
    fin, fout,        \* input and output of the specifications of one function
    trail,            \* the operations done in the store specification
    all_offers,       \* scrape_all_offers' local all_offers (the cards' names)
    caught            \* history: the handler that caught the last exception

vars == <<file, site, pc, cycle, seen_offers, page, total_filtered, new_page_offers,
          idx, sent, pagelog, loaded, read_ok, file_at_start, saves_ok, prev,
          notified, save_failed, undelivered, store_intact, before_crash, faults, fin, caught, fout, trail, all_offers>>

StaleId == <<"o", "l", "d">>
InitialIds == {StaleId}
InitialStores ==
    {MissingFile} \cup {ValidFile(ids) : ids \in UNION {Orderings(S) : S \in SUBSET InitialIds}}

NoPrev == [done |-> FALSE, saves_ok |-> FALSE, seen |-> {}]

\* no cycle has begun
IdleCycle ==
    /\ site = [p \in 1..NumPages |-> Unfetched]
    /\ cycle = 0
    /\ page = 1
    /\ total_filtered = 0
    /\ new_page_offers = <<>>
    /\ idx = 1
    /\ sent = <<>>
    /\ pagelog = <<>>
    /\ read_ok = TRUE
    /\ saves_ok = TRUE
    /\ prev = NoPrev
    /\ notified = {}
    /\ save_failed = FALSE
    /\ undelivered = {}
    /\ store_intact = TRUE
    /\ faults = 0
    /\ all_offers = <<>>
    /\ caught = "none"

\* the process starts (main, line 587): the store is what earlier runs left
Init ==
    /\ file \in InitialStores
    /\ pc = "idle"
    /\ seen_offers = {}
    /\ loaded = {}
    /\ file_at_start = file
    /\ before_crash = file
    /\ fin = <<>>
    /\ fout = <<>>
    /\ trail = <<>>
    /\ IdleCycle

(***************************************************************************)
(* check_for_new_offers, lines 440-452: load the Seen-Set, start at page 1 *)
(* (main, lines 596 and 601-603, calls it at start and after each sleep).  *)
(***************************************************************************)
\* a read fails only while the run's faults last, and only on a file that is there
ReadOutcomes == {TRUE} \cup {r \in {FALSE} : faults < MaxFaults /\ file.kind # "missing"}
DeliveryOutcomes == {TRUE} \cup {r \in {FALSE} : faults < MaxFaults}
SaveChoices == {o \in SaveOutcomes : o = "ok" \/ faults < MaxFaults}

LoadSeen ==
    /\ pc = "idle"
    /\ cycle < MaxCycles
    /\ \E readable \in ReadOutcomes :
          /\ seen_offers' = load_seen_offers(file, readable)
          /\ store_intact' = (store_intact /\ (file.kind = "missing"
                                               \/ (file.kind = "valid" /\ readable)))
          /\ faults' = IF readable THEN faults ELSE faults + 1
          /\ read_ok' = readable
    /\ loaded' = seen_offers'
    /\ file_at_start' = file
    /\ cycle' = cycle + 1
    /\ page' = 1
    /\ total_filtered' = 0
    /\ new_page_offers' = <<>>
    /\ idx' = 1
    /\ sent' = <<>>
    /\ pagelog' = <<>>
    /\ saves_ok' = TRUE
    /\ prev' = [done |-> cycle > 0, saves_ok |-> saves_ok, seen |-> seen_offers]
    /\ undelivered' = undelivered \cup {sent[k].id : k \in {j \in 1..Len(sent) : ~sent[j].ok}}
    /\ pc' = "fetch"
    /\ notified' = notified \cup {sent[k].id : k \in 1..Len(sent)}
    /\ UNCHANGED <<file, site, save_failed, before_crash, fin, caught, all_offers, fout, trail>>

\* the page the site serves for number pg
PageChoices(pg) ==
    IF pg \in DOMAIN site
    THEN IF site[pg] = Unfetched THEN Contents ELSE {site[pg]}
    ELSE {EmptyPage}

CurrentSoup == IF page \in DOMAIN site THEN site[page] ELSE EmptyPage

\* variant: the walker has no page ceiling
after_page_no_ceiling(soup, n_offers, pg) ==
    IF next_page_wanted(soup, n_offers) THEN <<"fetch", pg + 1>> ELSE <<"final", pg>>

\* lines 531-562: <<where the walker goes, its page>> after a processed page
after_page(soup, n_offers, pg) ==
    IF next_page_wanted(soup, n_offers)
    THEN IF pg + 1 > max_pages THEN <<"final", pg + 1>> ELSE <<"fetch", pg + 1>>
    ELSE <<"final", pg>>

\* variant: the notification loop adds no id
add_nothing(seen, offer, delivered) == seen

\* variant: only a delivered offer is marked seen
add_if_delivered(seen, offer, delivered) ==
    IF delivered THEN seen \cup {offer.id} ELSE seen

\* line 518: seen_offers.add(offer['id']), whatever send_discord_notification returned
add_notified(seen, offer, delivered) == seen \cup {offer.id}

\* lines 528-529: mark all filtered offers as seen
mark_filtered(seen, filtered) == seen \cup Ids(filtered)

(***************************************************************************)
(* One pass of the while loop, lines 457-512 and 524-569: fetch a page,    *)
(* extract, filter, stop early or find the page's new offers.              *)
(***************************************************************************)
FetchPage ==
    /\ pc = "fetch"
    /\ \E soup \in PageChoices(page) :
          LET page_offers == get_offers_from_page(soup)
              filtered == filter_offers_by_price(page_offers)
              fresh == unseen(filtered, seen_offers)
              nxt == after_page(soup, Len(page_offers), page)
          IN
          /\ site' = IF page \in DOMAIN site THEN [site EXCEPT ![page] = soup] ELSE site
          /\ IF soup.status = "error"
             THEN /\ pc' = "final"
                  /\ UNCHANGED <<seen_offers, page, total_filtered, new_page_offers, idx, pagelog>>
             ELSE /\ pagelog' = Append(pagelog, [page |-> page, offers |-> soup.offers, seen |-> seen_offers])
                  /\ IF page_offers = <<>>
                     THEN /\ pc' = "final"
                          /\ UNCHANGED <<seen_offers, page, total_filtered, new_page_offers, idx>>
                     ELSE /\ total_filtered' = total_filtered + Len(filtered)
                          /\ IF stops_early(page_offers, page, total_filtered')
                             THEN /\ pc' = "final"
                                  /\ UNCHANGED <<seen_offers, page, new_page_offers, idx>>
                             ELSE IF fresh # <<>>
                                  THEN /\ pc' = "notify"
                                       /\ new_page_offers' = fresh
                                       /\ idx' = 1
                                       /\ UNCHANGED <<seen_offers, page>>
                                  ELSE /\ seen_offers' = mark_filtered(seen_offers, filtered)
                                       /\ pc' = nxt[1]
                                       /\ page' = nxt[2]
                                       /\ UNCHANGED <<new_page_offers, idx>>
    /\ UNCHANGED <<file, cycle, sent, loaded, read_ok, file_at_start, saves_ok, prev,
                   notified, save_failed, undelivered, store_intact, before_crash, faults, fin, caught, all_offers, fout, trail>>

(***************************************************************************)
(* One pass of the notification loop, lines 514-519.                       *)
(***************************************************************************)
Notify ==
    /\ pc = "notify"
    /\ \E delivered \in DeliveryOutcomes :
          LET offer == new_page_offers[idx] IN
          /\ sent' = Append(sent, [id |-> offer.id, page |-> page, ok |-> delivered])
          /\ seen_offers' = add_notified(seen_offers, offer, delivered)
          /\ faults' = IF delivered THEN faults ELSE faults + 1
    /\ IF idx = Len(new_page_offers)
       THEN pc' = "save_page" /\ idx' = idx
       ELSE pc' = pc /\ idx' = idx + 1
    /\ UNCHANGED <<file, site, cycle, page, total_filtered, new_page_offers, pagelog, loaded,
                   read_ok, file_at_start, saves_ok, prev, notified, save_failed, undelivered,
                   store_intact, before_crash, fin, caught, all_offers, fout, trail>>

\* what one call of save_seen_offers does to the store and the history
Saves(seen) ==
    \E outcome \in SaveChoices :
       /\ file' \in save_seen_offers(file, seen, outcome)
       /\ faults' = IF outcome = "ok" THEN faults ELSE faults + 1
       /\ saves_ok' = (saves_ok /\ outcome = "ok")
       /\ save_failed' = (save_failed \/ outcome # "ok")
       /\ store_intact' = (store_intact /\ outcome = "ok")

(***************************************************************************)
(* Lines 521-562: the save after a page's notifications, the marking of    *)
(* the page's filtered offers, the pagination decision.                    *)
(***************************************************************************)
SavePage ==
    /\ pc = "save_page"
    /\ Saves(seen_offers)
    /\ LET page_offers == get_offers_from_page(CurrentSoup)
           filtered == filter_offers_by_price(page_offers)
           nxt == after_page(CurrentSoup, Len(page_offers), page)
       IN /\ seen_offers' = mark_filtered(seen_offers, filtered)
          /\ pc' = nxt[1]
          /\ page' = nxt[2]
    /\ UNCHANGED <<site, cycle, total_filtered, new_page_offers, idx, sent, pagelog, loaded, read_ok,
                   file_at_start, prev, notified, undelivered, before_crash, fin, caught, all_offers, fout, trail>>

(***************************************************************************)
(* Lines 571-581: the final save; the cycle is complete.                   *)
(***************************************************************************)
FinalSave ==
    /\ pc = "final"
    /\ Saves(seen_offers)
    /\ pc' = "idle"
    /\ UNCHANGED <<site, cycle, seen_offers, page, total_filtered, new_page_offers, idx, sent,
                   pagelog, loaded, read_ok, file_at_start, prev, notified, undelivered,
                   before_crash, fin, caught, all_offers, fout, trail>>

(***************************************************************************)
(* The process dies inside save_seen_offers (lines 378-379): before open   *)
(* truncated the file, between the truncation and the end of the dump, or  *)
(* after the file was written and closed.                                  *)
(***************************************************************************)
CrashPoints == {"before_open", "after_truncate", "after_close"}

crashed_save(f, seen, point) ==
    IF point = "before_open" THEN {f}
    ELSE IF point = "after_truncate" THEN {PartialFile}
    ELSE {ValidFile(ids) : ids \in Orderings(seen)}

CrashInSave ==
    /\ pc \in {"save_page", "final"}
    /\ faults < MaxFaults
    /\ faults' = faults + 1
    /\ \E point \in CrashPoints : file' \in crashed_save(file, seen_offers, point)
    /\ before_crash' = file
    /\ pc' = "crashed"
    /\ UNCHANGED <<site, cycle, seen_offers, page, total_filtered, new_page_offers, idx, sent,
                   pagelog, loaded, read_ok, file_at_start, saves_ok, prev, notified,
                   save_failed, undelivered, store_intact, fin, caught, all_offers, fout, trail>>

Next ==
    \/ LoadSeen
    \/ FetchPage
    \/ Notify
    \/ SavePage
    \/ FinalSave
    \/ CrashInSave

Spec == Init /\ [][Next]_vars

(***************************************************************************)
(* The filter on its own: filter_offers_by_price applied to any list of    *)
(* offers with prices around the two bounds and every kind of mileage.     *)
(***************************************************************************)
FilterPrices == {MIN_PRICE - 1, MIN_PRICE, MAX_PRICE, MAX_PRICE + 1}
FilterKms == {NoneInt, KM_ALLOWANCE, 20000}
FilterOffers == [monthly_price : FilterPrices, km_per_year : FilterKms]
FilterInputs == UNION {[1..n -> FilterOffers] : n \in 0..MaxFilterLen}

InitFilter ==
    /\ fin \in FilterInputs
    /\ fout = <<>>
    /\ pc = "filter"
    /\ file = MissingFile
    /\ seen_offers = {}
    /\ loaded = {}
    /\ file_at_start = file
    /\ before_crash = file
    /\ trail = <<>>
    /\ IdleCycle

ApplyFilter ==
    /\ pc = "filter"
    /\ fout' = filter_offers_by_price(fin)
    /\ pc' = "filtered"
    /\ UNCHANGED <<file, site, cycle, seen_offers, page, total_filtered, new_page_offers, idx,
                   sent, pagelog, loaded, read_ok, file_at_start, saves_ok, prev, notified,
                   save_failed, undelivered, store_intact, before_crash, faults, fin, caught, all_offers, trail>>

NextFilter == ApplyFilter

SpecFilter == InitFilter /\ [][NextFilter]_vars

(***************************************************************************)
(* The store on its own: up to two operations, each a save of the set in   *)
(* memory or a load into it, on any store file.                            *)
(***************************************************************************)
StoreIdUniverse == {StaleId, Card("A").id}
StoreLists == UNION {[1..n -> StoreIdUniverse] : n \in 0..MaxStoreLen}
StoreFiles == {MissingFile, PartialFile} \cup {ValidFile(ids) : ids \in StoreLists}

InitStore ==
    /\ file \in StoreFiles
    /\ seen_offers \in SUBSET StoreIdUniverse
    /\ pc = "store"
    /\ loaded = {}
    /\ file_at_start = file
    /\ before_crash = file
    /\ fin = <<>>
    /\ fout = <<>>
    /\ trail = <<>>
    /\ IdleCycle

\* save_seen_offers(seen_offers)
StoreSave ==
    /\ pc = "store"
    /\ Len(trail) < 2
    /\ \E outcome \in SaveOutcomes :
          /\ file' \in save_seen_offers(file, seen_offers, outcome)
          /\ trail' = Append(trail, IF outcome = "ok" THEN "save" ELSE "save_failed")
    /\ UNCHANGED <<site, pc, cycle, seen_offers, page, total_filtered, new_page_offers, idx,
                   sent, pagelog, loaded, read_ok, file_at_start, saves_ok, prev, notified,
                   save_failed, undelivered, store_intact, before_crash, faults, fin, caught, all_offers, fout>>

\* seen_offers = load_seen_offers(); prev.seen keeps the set in memory before
StoreLoad ==
    /\ pc = "store"
    /\ Len(trail) < 2
    /\ \E readable \in BOOLEAN :
          /\ loaded' = load_seen_offers(file, readable)
          /\ trail' = Append(trail, IF readable THEN "load" ELSE "load_failed")
    /\ seen_offers' = loaded'
    /\ prev' = [prev EXCEPT !.seen = seen_offers]
    /\ UNCHANGED <<file, site, pc, cycle, page, total_filtered, new_page_offers, idx, sent,
                   pagelog, read_ok, file_at_start, saves_ok, notified, save_failed,
                   undelivered, store_intact, before_crash, faults, fin, caught, all_offers, fout>>

NextStore ==
    \/ StoreSave
    \/ StoreLoad

SpecStore == InitStore /\ [][NextStore]_vars

(***************************************************************************)
(* The walk over a long site.  The site is fixed before the walk: one page *)
(* content up to a switch page, another from there on, so that a walk can  *)
(* run to the page ceilings.  The walk is studied without store and        *)
(* delivery failures (no fault is left to the run).  check_for_new_offers  *)
(* walks it with the actions above; scrape_all_offers (lines 248-333)      *)
(* walks it with ScrapePage.                                               *)
(***************************************************************************)
scrape_max_pages == 100

WalkPages == scrape_max_pages + 1

Repeat(name, n) == [k \in 1..n |-> name]

WalkLists == {<<>>, <<"A">>, <<"C">>, <<"D">>, Repeat("A", few_offers)}

WalkInfos == {<<>>, <<1, 2>>, <<2, 2>>}

WalkSoups ==
    {ErrorPage} \cup
    {[status |-> "ok", offers |-> o, next_link |-> n, page_info |-> i] :
        o \in WalkLists, n \in {"absent", "enabled", "disabled"}, i \in WalkInfos}

WalkSwitch == {1, 2}

WalkSites ==
    {[p \in 1..WalkPages |-> IF p < n THEN x ELSE y] :
        x \in WalkSoups, y \in WalkSoups, n \in WalkSwitch}

InitWalk ==
    /\ site \in WalkSites
    /\ file = MissingFile
    /\ pc \in {"idle", "scrape"}
    /\ faults = MaxFaults
    /\ seen_offers = {}
    /\ loaded = {}
    /\ file_at_start = file
    /\ before_crash = file
    /\ fin = <<>>
    /\ fout = <<>>
    /\ trail = <<>>
    /\ cycle = 0
    /\ page = 1
    /\ total_filtered = 0
    /\ new_page_offers = <<>>
    /\ idx = 1
    /\ sent = <<>>
    /\ pagelog = <<>>
    /\ read_ok = TRUE
    /\ saves_ok = TRUE
    /\ prev = NoPrev
    /\ notified = {}
    /\ save_failed = FALSE
    /\ undelivered = {}
    /\ store_intact = TRUE
    /\ all_offers = <<>>
    /\ caught = "none"

\* lines 315-320: <<where scrape_all_offers goes, its page>> after "page += 1"
after_scraped_page(pg) ==
    IF pg + 1 > scrape_max_pages THEN <<"scraped", pg + 1>> ELSE <<"scrape", pg + 1>>

(***************************************************************************)
(* One pass of the while loop of scrape_all_offers, lines 256-330.         *)
(***************************************************************************)
ScrapePage ==
    /\ pc = "scrape"
    /\ \E soup \in PageChoices(page) :
          LET page_offers == get_offers_from_page(soup)
              nxt == after_scraped_page(page)
          IN
          /\ site' = IF page \in DOMAIN site THEN [site EXCEPT ![page] = soup] ELSE site
          /\ IF soup.status = "error"
             THEN /\ pc' = "scraped"
                  /\ UNCHANGED <<page, all_offers, pagelog>>
             ELSE /\ pagelog' = Append(pagelog, [page |-> page, offers |-> soup.offers, seen |-> {}])
                  /\ IF page_offers = <<>>
                     THEN /\ pc' = "scraped"
                          /\ UNCHANGED <<page, all_offers>>
                     ELSE /\ all_offers' = all_offers \o soup.offers
                          /\ IF next_page_wanted(soup, Len(page_offers))
                             THEN pc' = nxt[1] /\ page' = nxt[2]
                             ELSE pc' = "scraped" /\ page' = page
    /\ UNCHANGED <<file, cycle, seen_offers, total_filtered, new_page_offers, idx, sent, loaded,
                   read_ok, file_at_start, saves_ok, prev, notified, save_failed, undelivered,
                   store_intact, before_crash, faults, fin, caught, fout, trail>>

NextWalk ==
    \/ LoadSeen
    \/ FetchPage
    \/ Notify
    \/ SavePage
    \/ FinalSave
    \/ ScrapePage

\* the loops are sequential code: a step that can be taken is taken
SpecWalk == InitWalk /\ [][NextWalk]_vars /\ WF_vars(NextWalk)

(***************************************************************************)
(* The offer id on its own: the id of two cards' fields, as lines 226-231  *)
(* compute it.                                                             *)
(***************************************************************************)
IdModels == {<<"3", "0", "8", " ", "S", "W">>, <<"3", "0", "8", " ", "s", "w">>, <<"2", "0", "8">>}
IdDealers == {None, <<"A", "H">>, <<"A", "-", "H">>}
IdPrices == {MIN_PRICE, 13909}
IdTerms == {None, <<"2", "4", " ", "M", "/", "1", "5", "k", "m">>,
            <<"2", "4", " ", "M", "/", "2", "0", "k", "m">>}
IdFields == [model : IdModels, dealer : IdDealers, monthly_price : IdPrices, terms : IdTerms]

InitId ==
    /\ fin \in IdFields \X IdFields
    /\ fout = <<>>
    /\ pc = "id"
    /\ file = MissingFile
    /\ seen_offers = {}
    /\ loaded = {}
    /\ file_at_start = file
    /\ before_crash = file
    /\ trail = <<>>
    /\ IdleCycle

ComputeIds ==
    /\ pc = "id"
    /\ fout' = [k \in 1..2 |->
                  offer_id(fin[k].model, fin[k].dealer, fin[k].monthly_price, fin[k].terms)]
    /\ pc' = "id_done"
    /\ UNCHANGED <<file, site, cycle, seen_offers, page, total_filtered, new_page_offers, idx,
                   sent, pagelog, loaded, read_ok, file_at_start, saves_ok, prev, notified,
                   save_failed, undelivered, store_intact, before_crash, faults, fin, caught, trail,
                   all_offers>>

NextId == ComputeIds

SpecId == InitId /\ [][NextId]_vars

(***************************************************************************)
(* parse_german_price, lines 32-80, on strings of one-character strings.   *)
(* "nbsp" stands for U+00A0 and "zwsp" for U+200B.  The float returned is  *)
(* kept in thousandths; NoneInt is None.                                   *)
(***************************************************************************)
CutChars == {"/", " ", "nbsp"}              \* the class [/\u2009\u00A0\s]
SpaceChars == {" ", "nbsp"}                 \* what str.strip() removes
FormatChars == {"zwsp"}                     \* the class [\u2000-\u200F\u2028-\u202F\u205F-\u206F]

\* re.sub(r'[/\u2009\u00A0\s]+.*$', '', price_str): cut at the first such character
cut_tail(s) ==
    IF \E k \in 1..Len(s) : s[k] \in CutChars
    THEN SubSeq(s, 1, (CHOOSE k \in 1..Len(s) :
                          s[k] \in CutChars /\ \A j \in 1..(k - 1) : s[j] \notin CutChars) - 1)
    ELSE s

\* .replace(old, '') for a string old
RECURSIVE remove_all(_, _)
remove_all(s, old) ==
    IF Len(s) < Len(old) THEN s
    ELSE IF SubSeq(s, 1, Len(old)) = old THEN remove_all(SubSeq(s, Len(old) + 1, Len(s)), old)
    ELSE <<Head(s)>> \o remove_all(Tail(s), old)

\* .strip()
RECURSIVE strip(_)
strip(s) ==
    IF s = <<>> THEN s
    ELSE IF Head(s) \in SpaceChars THEN strip(Tail(s))
    ELSE IF s[Len(s)] \in SpaceChars THEN strip(SubSeq(s, 1, Len(s) - 1))
    ELSE s

count_char(s, c) == Cardinality({k \in 1..Len(s) : s[k] = c})

\* price_str.split('.')[1] when there is a dot: the text after the first dot
after_first_dot(s) ==
    LET first == CHOOSE k \in 1..Len(s) : s[k] = "." /\ \A j \in 1..(k - 1) : s[j] # "."
        rest == SubSeq(s, first + 1, Len(s))
    IN IF \E k \in 1..Len(rest) : rest[k] = "."
       THEN SubSeq(rest, 1, (CHOOSE k \in 1..Len(rest) :
                                rest[k] = "." /\ \A j \in 1..(k - 1) : rest[j] # ".") - 1)
       ELSE rest

\* lines 52-65
separators(s) ==
    IF count_char(s, ",") > 0
    THEN [k \in 1..Len(remove_all(s, <<".">>)) |->
             IF remove_all(s, <<".">>)[k] = "," THEN "." ELSE remove_all(s, <<".">>)[k]]
    ELSE IF count_char(s, ".") > 0
         THEN IF count_char(s, ".") + 1 = 2 /\ Len(after_first_dot(s)) <= 2
              THEN s
              ELSE remove_all(s, <<".">>)
         ELSE s

IsDigit(c) == \E k \in 1..Len(Digits) : Digits[k] = c

DigitValue(c) == (CHOOSE k \in 1..Len(Digits) : Digits[k] = c) - 1

RECURSIVE StrToInt(_)
StrToInt(s) == IF s = <<>> THEN 0 ELSE StrToInt(SubSeq(s, 1, Len(s) - 1)) * 10 + DigitValue(s[Len(s)])

\* the number int.frac in thousandths (frac of at most three digits)
Thousandths(int, frac) ==
    StrToInt(int) * 1000 + StrToInt(SubSeq(frac \o <<"0", "0", "0">>, 1, 3))

\* float(price_str), None on ValueError
to_float(s) ==
    IF \/ \E k \in 1..Len(s) : ~IsDigit(s[k]) /\ s[k] # "."
       \/ count_char(s, ".") > 1
       \/ \A k \in 1..Len(s) : ~IsDigit(s[k])
    THEN NoneInt
    ELSE IF count_char(s, ".") = 1
         THEN LET dot == CHOOSE k \in 1..Len(s) : s[k] = "."
              IN Thousandths(SubSeq(s, 1, dot - 1), SubSeq(s, dot + 1, Len(s)))
         ELSE Thousandths(s, <<>>)

parse_german_price(price_str) ==
    IF price_str = <<>> THEN NoneInt
    ELSE LET s1 == cut_tail(price_str)
             s2 == strip(remove_all(remove_all(s1, <<"€">>), <<"E", "U", "R">>))
             s3 == SelectSeq(s2, LAMBDA c : c \notin FormatChars)
             s4 == separators(s3)
             s5 == SelectSeq(s4, LAMBDA c : IsDigit(c) \/ c \in {".", ","})
         IN to_float(s5)

(***************************************************************************)
(* The price texts: what the price pattern of extract_offer_details        *)
(* (line 141) can match, and the examples of the docstring.                *)
(***************************************************************************)
Monat == <<"M", "o", "n", "a", "t">>

PatternParts ==
    [int : {<<"1">>, <<"1", "2", "6">>},
     sep : {".", ","},
     frac : {<<"5">>, <<"3", "2">>, <<"2", "3", "4">>},
     ws1 : {<<>>, <<" ">>, <<"nbsp">>},
     ws2 : {<<>>, <<" ">>},
     slash : {<<>>, <<"/">>},
     ws3 : {<<>>, <<" ">>}]

\* \d+[.,]\d+\s*€\s*/?\s*Monat
FragmentText(r) ==
    r.int \o <<r.sep>> \o r.frac \o r.ws1 \o <<"€">> \o r.ws2 \o r.slash \o r.ws3 \o Monat

PriceExamples ==
    {<<"1", "3", "9", ",", "0", "9", " ", "€">>,
     <<"1", ".", "2", "3", "4", ",", "5", "6", " ", "€">>,
     <<"1", "2", "6", ".", "3", "2", " ", " ", "/", " ">> \o Monat,
     <<"9", "9", ",", "0", "0", " ", "€", " ", "/", " ">> \o Monat}

PriceTexts == {FragmentText(r) : r \in PatternParts} \cup PriceExamples

InitPrice ==
    /\ fin \in PriceTexts
    /\ fout = <<>>
    /\ pc = "price"
    /\ file = MissingFile
    /\ seen_offers = {}
    /\ loaded = {}
    /\ file_at_start = file
    /\ before_crash = file
    /\ trail = <<>>
    /\ IdleCycle

ParsePrice ==
    /\ pc = "price"
    /\ fout' = parse_german_price(fin)
    /\ pc' = "parsed"
    /\ UNCHANGED <<file, site, cycle, seen_offers, page, total_filtered, new_page_offers, idx,
                   sent, pagelog, loaded, read_ok, file_at_start, saves_ok, prev, notified,
                   save_failed, undelivered, store_intact, before_crash, faults, fin, caught, trail,
                   all_offers>>

NextPrice == ParsePrice

SpecPrice == InitPrice /\ [][NextPrice]_vars

(***************************************************************************)
(* The main loop, lines 587-610, around the check cycle, with the          *)
(* exceptions a run can meet:                                              *)
(*   an Exception in a pass of the while loop   caught at lines 567-569    *)
(*   an Exception after the loop                caught at lines 583-584    *)
(*   an Exception in the body of the main loop  caught at lines 608-611    *)
(*   KeyboardInterrupt (the operator's stop)    caught at lines 605-607,   *)
(*       or by nobody when raised in the initial check or the back-off     *)
(* Exceptions other than the interrupt count as faults of the run.         *)
(***************************************************************************)
MainFirst ==
    {[status |-> "ok", offers |-> <<"A", "B">>, next_link |-> "enabled", page_info |-> <<>>],
     [status |-> "ok", offers |-> <<"A">>, next_link |-> "absent", page_info |-> <<>>]}

MainRest ==
    {ErrorPage, [status |-> "ok", offers |-> <<"B">>, next_link |-> "absent", page_info |-> <<>>]}

MainSites == {[p \in 1..NumPages |-> IF p = 1 THEN x ELSE y] : x \in MainFirst, y \in MainRest}

InitMain ==
    /\ site \in MainSites
    /\ file \in InitialStores
    /\ pc = "idle"
    /\ seen_offers = {}
    /\ loaded = {}
    /\ file_at_start = file
    /\ before_crash = file
    /\ fin = <<>>
    /\ fout = <<>>
    /\ trail = <<>>
    /\ cycle = 0
    /\ page = 1
    /\ total_filtered = 0
    /\ new_page_offers = <<>>
    /\ idx = 1
    /\ sent = <<>>
    /\ pagelog = <<>>
    /\ read_ok = TRUE
    /\ saves_ok = TRUE
    /\ prev = NoPrev
    /\ notified = {}
    /\ save_failed = FALSE
    /\ undelivered = {}
    /\ store_intact = TRUE
    /\ faults = 0
    /\ all_offers = <<>>
    /\ caught = "none"

\* variant: the main loop stops on every exception
main_handler_stops(exc) == "stopped"

\* lines 605-611: where the main loop goes when its body raises exc
main_handler(exc) == IF exc = "KeyboardInterrupt" THEN "stopped" ELSE "backoff"

\* what an exception leaves alone
Raised ==
    UNCHANGED <<file, site, cycle, seen_offers, page, total_filtered, new_page_offers, idx,
                sent, pagelog, loaded, read_ok, file_at_start, saves_ok, prev, notified,
                save_failed, undelivered, store_intact, before_crash, fin, fout, trail,
                all_offers>>

\* lines 567-569: an Exception in a pass of the while loop ends the loop
ErrorInPage ==
    /\ pc \in {"fetch", "notify", "save_page"}
    /\ faults < MaxFaults
    /\ faults' = faults + 1
    /\ pc' = "final"
    /\ caught' = "page"
    /\ Raised

\* lines 583-584: an Exception after the loop ends the cycle before its final save
ErrorAfterLoop ==
    /\ pc = "final"
    /\ faults < MaxFaults
    /\ faults' = faults + 1
    /\ pc' = "idle"
    /\ caught' = "cycle"
    /\ Raised

\* lines 600-602 and 608-611: an Exception in the body of the main loop
ErrorInMain ==
    /\ pc = "idle"
    /\ cycle > 0
    /\ faults < MaxFaults
    /\ faults' = faults + 1
    /\ pc' = main_handler("Exception")
    /\ caught' = "main"
    /\ Raised

\* line 611: time.sleep(60) is over, the while loop goes on
BackOff ==
    /\ pc = "backoff"
    /\ pc' = "idle"
    /\ UNCHANGED <<faults, caught>>
    /\ Raised

\* the operator's interrupt while the main loop sleeps (lines 602, 605-607)
\* or backs off (line 611)
OperatorStop ==
    /\ pc \in {"idle", "backoff"}
    /\ pc' = main_handler("KeyboardInterrupt")
    /\ caught' = "interrupt"
    /\ UNCHANGED faults
    /\ Raised

\* the operator's interrupt while check_for_new_offers runs: "except
\* Exception" (lines 567, 583) does not catch KeyboardInterrupt
Interrupt ==
    /\ pc \in {"fetch", "notify", "save_page", "final"}
    /\ pc' = main_handler("KeyboardInterrupt")
    /\ caught' = "interrupt"
    /\ UNCHANGED faults
    /\ Raised

NextMain ==
    \/ LoadSeen
    \/ FetchPage
    \/ Notify
    \/ SavePage
    \/ FinalSave
    \/ ErrorInPage
    \/ ErrorAfterLoop
    \/ ErrorInMain
    \/ BackOff
    \/ OperatorStop
    \/ Interrupt

\* the process keeps running: a step that can be taken is taken
SpecMain == InitMain /\ [][NextMain]_vars /\ WF_vars(NextMain)

(***************************************************************************)
(* Vocabulary of the claims.                                               *)
(***************************************************************************)
\* the filter predicate as the specification words it (section 4.4)
InBand(offer) ==
    /\ MIN_PRICE <= offer.monthly_price
    /\ offer.monthly_price <= MAX_PRICE
    /\ (offer.km_per_year = NoneInt \/ offer.km_per_year = KM_ALLOWANCE)

SentIds == [k \in 1..Len(sent) |-> sent[k].id]

\* a cycle has run to its end, final save included
CycleComplete == pc = "idle" /\ cycle > 0

\* the ids of the in-band offers on page entry e of pagelog
InBandIds(e) == {Card(e.offers[k]).id : k \in {j \in 1..Len(e.offers) : InBand(Card(e.offers[j]))}}

\* this cycle's load handed the cycle what the store held
LoadReadStore == loaded = StoreIds(file_at_start)

C2_OneNotificationPerId ==
    faults = 0 => \A j, k \in 1..Len(sent) : sent[j].id = sent[k].id => j = k

(***************************************************************************)
(* C3.  The persisted Seen-Set only grows: an id in the store before a     *)
(* cycle is in the store after it, for every outcome of the load.  Stated  *)
(* here for the cycles whose saves all succeeded.                          *)
(***************************************************************************)
C3_StoreMonotonic ==
    (CycleComplete /\ saves_ok) => StoreIds(file_at_start) \subseteq StoreIds(file)

(***************************************************************************)
(* C4.  save_seen_offers is crash-atomic: after a crash inside a save the  *)
(* store holds the complete old state or the complete new id set.          *)
(***************************************************************************)
C4_CrashAtomic ==
    pc = "crashed" =>
        \/ file = before_crash
        \/ file.kind = "valid" /\ Range(file.ids) = seen_offers

(***************************************************************************)
(* C5.  After a failed save, no offer this process notified in an earlier  *)
(* cycle is notified again.                                                *)
(***************************************************************************)
C5_NoRenotifyAfterFailedSave ==
    [][(save_failed /\ Len(sent') = Len(sent) + 1)
          => sent'[Len(sent')].id \notin notified]_vars

(***************************************************************************)
(* C6.  load_seen_offers gives the empty set when the store is missing,    *)
(* unreadable or malformed and raises nothing: the step that loads leaves  *)
(* the cycle with an empty Seen-Set, about to fetch page 1.                *)
(***************************************************************************)
C6_LoadDegradesToEmpty ==
    [][(cycle' = cycle + 1 /\ (file.kind # "valid" \/ ~read_ok'))
          => (seen_offers' = {} /\ pc' = "fetch" /\ page' = 1)]_vars

\* a cycle that could not read a store holding ids went on and extracted a page
C6_Witness ==
    /\ cycle > 0
    /\ file_at_start.kind = "valid" /\ file_at_start.ids # <<>> /\ ~read_ok
    /\ loaded = {}
    /\ pagelog # <<>>

(***************************************************************************)
(* C8.  When the delivery of a notification fails, the offer's id is in    *)
(* the Seen-Set all the same and is in the store once that page's save     *)
(* succeeded; the loop goes on to the page's next new offer; and while no  *)
(* load or save of the store fails, no later cycle notifies an offer whose *)
(* delivery failed in an earlier cycle.                                    *)
(***************************************************************************)
SentOnPage(p) == SelectSeq(sent, LAMBDA e : e.page = p)

C8_FailedDeliveryStillSeen ==
    /\ \A k \in 1..Len(sent) : ~sent[k].ok => sent[k].id \in seen_offers
    /\ (pc \in {"fetch", "final", "idle"} /\ saves_ok) =>
          \A k \in 1..Len(sent) : ~sent[k].ok => sent[k].id \in StoreIds(file)
    /\ pc = "notify" => Len(SentOnPage(page)) = idx - 1
    /\ pc = "save_page" =>
          [k \in 1..Len(SentOnPage(page)) |-> SentOnPage(page)[k].id]
              = [k \in 1..Len(new_page_offers) |-> new_page_offers[k].id]
    /\ store_intact => \A k \in 1..Len(sent) : sent[k].id \notin undelivered

\* an offer whose delivery failed in the first cycle is on the site again in
\* the second, which ends without notifying it
C8_Witness ==
    /\ CycleComplete /\ store_intact
    /\ undelivered # {}
    /\ \E p \in 1..Len(pagelog) : InBandIds(pagelog[p]) \cap undelivered # {}
    /\ sent = <<>>

(***************************************************************************)
(* C9.  The notifications of a cycle are exactly the offers on its fetched *)
(* pages that pass the filter and whose id was not in the Seen-Set when    *)
(* their page began, in order; the Seen-Set grows by exactly the distinct  *)
(* ids notified, and a cycle whose saves succeeded leaves it in the store. *)
(***************************************************************************)
\* the ids due for notification on page entry e of pagelog
Due(e) ==
    LET offers == [k \in 1..Len(e.offers) |-> Card(e.offers[k])]
        due == SelectSeq(offers, LAMBDA o : InBand(o) /\ o.id \notin e.seen)
    IN [k \in 1..Len(due) |-> due[k].id]

RECURSIVE AllDue(_)
AllDue(log) == IF log = <<>> THEN <<>> ELSE Due(Head(log)) \o AllDue(Tail(log))

IsPrefix(s, t) == Len(s) <= Len(t) /\ SubSeq(t, 1, Len(s)) = s

C9_NotifiesExactlyNewInBand ==
    /\ IsPrefix(SentIds, AllDue(pagelog))
    /\ pc # "notify" => SentIds = AllDue(pagelog)
    /\ seen_offers = loaded \cup Range(SentIds)
    /\ Cardinality(seen_offers \ loaded) = Cardinality(Range(SentIds))
    /\ (CycleComplete /\ saves_ok) => StoreIds(file) = seen_offers

\* a page of several offers, one of them in band and unseen: one notification,
\* one new id, in the store
C9_Witness ==
    /\ CycleComplete /\ saves_ok
    /\ Len(pagelog) = 1
    /\ Len(pagelog[1].offers) = MaxLen
    /\ Cardinality({k \in 1..MaxLen : InBand(Card(pagelog[1].offers[k]))}) = 1
    /\ Len(sent) = 1
    /\ Cardinality(seen_offers \ loaded) = 1
    /\ sent[1].id \in StoreIds(file) \ StoreIds(file_at_start)

C10_FilterKeepsExactlyBand ==
    pc = "filtered" => fout = SelectSeq(fin, InBand)

\* an offer at exactly MAX_PRICE without mileage is kept, one at exactly
\* MIN_PRICE with another mileage is dropped
C10_Witness ==
    /\ pc = "filtered"
    /\ Len(fin) = 2
    /\ fin[1] = [monthly_price |-> MAX_PRICE, km_per_year |-> NoneInt]
    /\ fin[2].monthly_price = MIN_PRICE /\ fin[2].km_per_year \notin {NoneInt, KM_ALLOWANCE}
    /\ fout = <<fin[1]>>

(***************************************************************************)
(* C11.  Every walk terminates and fetches a bounded number of pages: the  *)
(* pages fetched are 1, 2, ..., k in this order, k is at most the ceiling  *)
(* (50 in check_for_new_offers, 100 in scrape_all_offers), and a walk that *)
(* has begun comes to its end, whatever the pages hold.                    *)
(***************************************************************************)
Ceiling == IF pc \in {"scrape", "scraped"} THEN scrape_max_pages ELSE max_pages

Walking == pc \in {"fetch", "notify", "save_page", "final", "scrape"}

PagesBounded ==
    /\ \A p \in 1..Len(pagelog) : pagelog[p].page = p
    /\ Len(pagelog) <= Ceiling
    /\ pc \in {"fetch", "scrape"} => (page = Len(pagelog) + 1 /\ page <= Ceiling)

C11_BoundedWalk == [](PagesBounded) /\ (Walking ~> (pc \in {"idle", "scraped"}))

\* every page has ten offers and an enabled next-page control: the check
\* cycle ends after page 50
C11_Witness ==
    /\ pc = "idle"
    /\ cycle > 0
    /\ Len(pagelog) = max_pages
    /\ page = max_pages + 1
    /\ \A p \in 1..max_pages : Len(pagelog[p].offers) = few_offers /\ site[p].next_link = "enabled"

(***************************************************************************)
(* C12.  In a check cycle a fetched page with zero extracted offers ends   *)
(* the pagination without error, and so does a page on which every offer   *)
(* has monthly_price > MAX_PRICE, next-page control or not: the cycle goes *)
(* to its final save and fetches no further page.                          *)
(***************************************************************************)
AllAboveMax(e) == \A k \in 1..Len(e.offers) : Card(e.offers[k]).monthly_price > MAX_PRICE

C12_EmptyOrAllAboveMaxEnds ==
    \A p \in 1..Len(pagelog) :
       (pagelog[p].offers = <<>> \/ AllAboveMax(pagelog[p]))
          => /\ p = Len(pagelog)
             /\ page = p
             /\ pc \in {"final", "idle", "crashed"}

\* page 1 holds only offers above MAX_PRICE and an enabled next-page control;
\* the cycle is complete and page 2 was not fetched
C12_Witness ==
    /\ CycleComplete
    /\ cycle = 1
    /\ Len(pagelog) = 1
    /\ pagelog[1].offers # <<>>
    /\ AllAboveMax(pagelog[1])
    /\ site[1].next_link = "enabled"
    /\ site[2] = Unfetched

(***************************************************************************)
(* C13.  If the fetch of page k fails, no further page is fetched in the   *)
(* cycle, what was notified and added to the Seen-Set for pages 1..k-1 is  *)
(* kept and persisted by the final save, and the failure stays inside      *)
(* check_for_new_offers (the cycle goes to its final save and ends).       *)
(***************************************************************************)
FetchFailed ==
    /\ cycle > 0
    /\ pc \in {"final", "idle"}
    /\ page \in DOMAIN site
    /\ site[page].status = "error"

C13_FetchFailureKeepsEarlierPages ==
    FetchFailed =>
       /\ Len(pagelog) = page - 1
       /\ Range(SentIds) \subseteq seen_offers
       /\ \A p \in 1..Len(pagelog) : InBandIds(pagelog[p]) \subseteq seen_offers
       /\ \A k \in 1..Len(sent) : sent[k].page < page
       /\ (pc = "idle" /\ saves_ok) => StoreIds(file) = seen_offers

\* page 1 gave a notification, the fetch of page 2 failed, the cycle ended
\* and the store holds the notified id
C13_Witness ==
    /\ CycleComplete
    /\ saves_ok
    /\ page = 2
    /\ site[2].status = "error"
    /\ Len(sent) >= 1
    /\ sent[1].id \in StoreIds(file) \ StoreIds(file_at_start)

(***************************************************************************)
(* C14.  Notifications of a cycle are sent in page order and, within a     *)
(* page, in extraction order; every notification of page p is sent before  *)
(* page p+1 is fetched.                                                    *)
(***************************************************************************)
RECURSIVE IsSubSeq(_, _)
IsSubSeq(s, t) ==
    IF s = <<>> THEN TRUE
    ELSE IF t = <<>> THEN FALSE
    ELSE IF Head(s) = Head(t) THEN IsSubSeq(Tail(s), Tail(t))
    ELSE IsSubSeq(s, Tail(t))

ExtractedIds(e) == [k \in 1..Len(e.offers) |-> Card(e.offers[k]).id]

SentIdsOnPage(p) == LET on == SentOnPage(p) IN [k \in 1..Len(on) |-> on[k].id]

C14_PageThenExtractionOrder ==
    /\ \A j, k \in 1..Len(sent) : j < k => sent[j].page <= sent[k].page
    /\ \A k \in 1..Len(sent) : sent[k].page \in 1..Len(pagelog)
    /\ \A p \in 1..Len(pagelog) : IsSubSeq(SentIdsOnPage(p), ExtractedIds(pagelog[p]))
    /\ \A p \in 1..Len(pagelog) : p < Len(pagelog) => Len(SentOnPage(p)) = Len(Due(pagelog[p]))

\* two different offers of page 1 were notified in their order on the page,
\* then page 2 was fetched
C14_Witness ==
    /\ Len(sent) = 2
    /\ sent[1].page = 1 /\ sent[2].page = 1
    /\ sent[1].id # sent[2].id
    /\ ExtractedIds(pagelog[1]) = <<sent[1].id, sent[2].id>>
    /\ Len(pagelog) = 2

(***************************************************************************)
(* C15.  The offer id is a pure function of (model, dealer, price to two   *)
(* decimals, terms): equal fields give equal ids, and fields that differ   *)
(* in exactly one of the four give different ids.                          *)
(***************************************************************************)
FieldNames == {"model", "dealer", "monthly_price", "terms"}

DifferInOneField(a, b) == Cardinality({f \in FieldNames : a[f] # b[f]}) = 1

C15_IdPureAndInjective ==
    pc = "id_done" =>
       /\ fin[1] = fin[2] => fout[1] = fout[2]
       /\ DifferInOneField(fin[1], fin[2]) => fout[1] # fout[2]

(***************************************************************************)
(* C16.  parse_german_price follows the locale rule on every text the      *)
(* price pattern can match: with a comma the comma is the decimal          *)
(* separator; without one, a single dot followed by at most two digits is  *)
(* the decimal point and otherwise dots separate thousands.  The four      *)
(* examples give 139.09, 1234.56, 126.32 and 99.00.                        *)
(***************************************************************************)
LocaleValue(r) ==
    IF r.sep = "," THEN Thousandths(r.int, r.frac)
    ELSE IF Len(r.frac) <= 2 THEN Thousandths(r.int, r.frac)
    ELSE Thousandths(r.int \o r.frac, <<>>)

ExampleValue(text) ==
    CASE text = <<"1", "3", "9", ",", "0", "9", " ", "€">> -> 139090
      [] text = <<"1", ".", "2", "3", "4", ",", "5", "6", " ", "€">> -> 1234560
      [] text = <<"1", "2", "6", ".", "3", "2", " ", " ", "/", " ">> \o Monat -> 126320
      [] OTHER -> 99000

C16_PriceFollowsLocaleRule ==
    pc = "parsed" =>
       /\ fin \in PriceExamples => fout = ExampleValue(fin)
       /\ \A r \in PatternParts : FragmentText(r) = fin => fout = LocaleValue(r)

(***************************************************************************)
(* C17.  No recoverable error ends the process: an exception other than    *)
(* the interrupt, raised in a check cycle or in the body of the main loop, *)
(* is caught, and afterwards another check cycle is started unless the     *)
(* operator stops the process; the main loop is left only on the           *)
(* operator's stop.  (A run of the model has MaxCycles cycles.)            *)
(***************************************************************************)
StoppedOnlyByOperator == pc = "stopped" => caught = "interrupt"

CaughtIn(n) == caught \in {"page", "cycle", "main"} /\ cycle = n

C17_RecoversFromErrors ==
    /\ [](StoppedOnlyByOperator)
    /\ \A n \in 1..(MaxCycles - 1) : CaughtIn(n) ~> (cycle > n \/ pc = "stopped")

\* after an exception in the body of the main loop and the back-off the
\* next check cycle has begun
C17_Witness ==
    /\ caught = "main"
    /\ cycle = 2
    /\ pc = "fetch"

(***************************************************************************)
(* C18.  The operator's interrupt takes effect only between cycles: a      *)
(* cycle that has begun runs through its final save before the process     *)
(* stops, so the process never stops with a notification sent in its last  *)
(* cycle whose id is not in the store (in a run without faults).           *)
(***************************************************************************)
C18_InterruptOnlyBetweenCycles ==
    (pc = "stopped" /\ faults = 0) => Range(SentIds) \subseteq StoreIds(file)

(***************************************************************************)
(* C19.  After a page with at least one offer and no early stop, the       *)
(* walker decides in this order: (a) a next-page control that is present   *)
(* and not disabled: it continues, whatever the page indicator and the     *)
(* number of offers; (b) no next-page control and a "<current> von         *)
(* <total>" indicator with current >= total: it stops, even with 10 or     *)
(* more offers; (c) no next-page control and no stopping indicator: it     *)
(* stops with fewer than 10 offers and continues with 10 or more.          *)
(***************************************************************************)
Scraping == pc \in {"scrape", "scraped"}

NoInBandUpTo(p) == \A q \in 1..p : InBandIds(pagelog[q]) = {}

EarlyStop(p) ==
    /\ ~Scraping
    /\ \/ AllAboveMax(pagelog[p])
       \/ p > zero_range_pages /\ NoInBandUpTo(p)

\* the walker is past the pagination code of logged page p
Decided(p) == p < Len(pagelog) \/ pc \notin {"notify", "save_page"}

Continued(p) == page > p

Stopped(p) == page = p /\ pc \in {"final", "idle", "scraped"}

StoppingIndicator(soup) == soup.page_info # <<>> /\ soup.page_info[1] >= soup.page_info[2]

C19_ContinuationPriority ==
    \A p \in 1..Len(pagelog) :
       (pagelog[p].offers # <<>> /\ ~EarlyStop(p) /\ Decided(p)) =>
          /\ site[p].next_link = "enabled" => Continued(p)
          /\ (site[p].next_link = "absent" /\ StoppingIndicator(site[p])) => Stopped(p)
          /\ (site[p].next_link = "absent" /\ ~StoppingIndicator(site[p])) =>
                IF Len(pagelog[p].offers) < few_offers THEN Stopped(p) ELSE Continued(p)

\* ten offers, no next-page control, "2 von 2": the check cycle stopped
\* after page 1
C19_Witness ==
    /\ CycleComplete
    /\ Len(pagelog) = 1
    /\ page = 1
    /\ Len(pagelog[1].offers) = few_offers
    /\ ~EarlyStop(1)
    /\ site[1].next_link = "absent"
    /\ site[1].page_info = <<2, 2>>

(***************************************************************************)
(* C20.  Zero-in-range early stop: once more than 10 of the pages fetched  *)
(* in a check cycle have produced no in-range offer, the pagination stops  *)
(* and no further page is fetched, whatever the next-page control says.    *)
(***************************************************************************)
ZeroPages == {p \in 1..Len(pagelog) : InBandIds(pagelog[p]) = {}}

C20_StopsAfterZeroInRangePages ==
    (~Scraping /\ Cardinality(ZeroPages) > zero_range_pages) => pc \in {"final", "idle"}

(***************************************************************************)
(* C21.  Incremental persistence: whenever the cycle is about to fetch     *)
(* the next page and every save so far succeeded, the store holds the id   *)
(* of every in-range offer, new or already seen, of the pages processed so *)
(* far in this cycle.                                                      *)
(***************************************************************************)
C21_StoreHoldsProcessedPages ==
    (pc = "fetch" /\ saves_ok) =>
       \A p \in 1..Len(pagelog) : InBandIds(pagelog[p]) \subseteq StoreIds(file)

\* page 1 gave a notification and the cycle is about to fetch page 2: the
\* store was written before the end of the cycle and holds the id
C21_Witness ==
    /\ pc = "fetch"
    /\ page = 2
    /\ saves_ok
    /\ Len(sent) = 1
    /\ file # file_at_start
    /\ InBandIds(pagelog[1]) = {sent[1].id}
    /\ sent[1].id \in StoreIds(file)

(***************************************************************************)
(* extract_offer_details, lines 132-245.  A card is given by what each     *)
(* lookup of the function meets in the element: the text found (None when  *)
(* nothing matches) or Raises when the lookup raises an exception.  The    *)
(* whole body is one try block (136) with one handler (243-245).           *)
(***************************************************************************)
Raises == <<"raises">>
NoOffer == [none |-> TRUE]                  \* the function's return value None

UnknownModel == <<"Unknown Model">>
UnknownDealer == <<"Unknown Dealer">>
StoreOrigin == <<"https://financing.peugeot.store">>     \* the literal of line 222

startswith(s, prefix) == Len(s) >= Len(prefix) /\ SubSeq(s, 1, Len(prefix)) = prefix

RECURSIVE rstrip_slash(_)
rstrip_slash(s) ==
    IF s # <<>> /\ s[Len(s)] = "/" THEN rstrip_slash(SubSeq(s, 1, Len(s) - 1)) ELSE s

RECURSIVE lstrip_slash(_)
lstrip_slash(s) == IF s # <<>> /\ Head(s) = "/" THEN lstrip_slash(Tail(s)) ELSE s

\* x or default
or_default(x, default) == IF x = None \/ x = <<>> THEN default ELSE x

\* lines 196-200 and 208-212: int(km_str) after the separators are removed
km_value(km_str) ==
    LET digits == remove_all(remove_all(km_str, <<".">>), <<",">>)
    IN IF km_str = None \/ digits = <<>> \/ \E k \in 1..Len(digits) : ~IsDigit(digits[k])
       THEN NoneInt
       ELSE StrToInt(digits)

\* lines 215-224
link_of(href, base_url) ==
    IF href = None THEN None
    ELSE IF startswith(href, <<"h", "t", "t", "p">>) THEN href
    ELSE IF startswith(href, <<"/">>) THEN StoreOrigin \o href
    ELSE rstrip_slash(base_url) \o <<"/">> \o lstrip_slash(href)

\* monthly_price is in thousandths, as parse_german_price returns it; the
\* prices of the cards below have two decimals, so that f"{monthly_price:.2f}"
\* is the price in whole cents
extract_offer_details(card, base_url) ==
    IF card.price_text = None THEN NoOffer
    ELSE LET monthly_price == parse_german_price(card.price_text)
         IN IF monthly_price = NoneInt THEN NoOffer
            ELSE IF Raises \in {card.model, card.dealer, card.terms.text, card.link}
                 THEN NoOffer
                 ELSE [id |-> offer_id(card.model, card.dealer, monthly_price \div 10,
                                       card.terms.text),
                       model |-> or_default(card.model, UnknownModel),
                       monthly_price |-> monthly_price,
                       dealer |-> or_default(card.dealer, UnknownDealer),
                       terms |-> card.terms.text,
                       km_per_year |-> km_value(card.terms.km),
                       link |-> or_default(link_of(card.link, base_url), base_url),
                       price_text |-> card.price_text]

(***************************************************************************)
(* The specification of extract_offer_details: one card, one call.         *)
(***************************************************************************)
PerMonth == <<" ", "€", " ", "/", " ">> \o Monat
CardPrices == {<<"9", "9", ",", "0", "0">> \o PerMonth,
               <<"1", "3", "9", ",", "0", "9">> \o PerMonth,
               <<"0", ",", "0", "0">> \o PerMonth}
CardTermsText == <<"3", "6", " ", "M", "o", "n", ".", " ", "/", " ">>
NoTerms == [text |-> None, km |-> None]
RaisingTerms == [text |-> Raises, km |-> None]
CardTerms == {NoTerms, RaisingTerms,
              [text |-> CardTermsText \o <<"1", "5", ".", "0", "0", "0", " ", "k", "m">>,
               km |-> <<"1", "5", ".", "0", "0", "0">>],
              [text |-> CardTermsText \o <<"5", "0", "0", "0">>, km |-> None]}
CardLinks == {None, Raises, <<"h", "t", "t", "p", ":", "/", "/", "x">>, <<"/", "x">>, <<"x">>}
BaseUrls == {<<"b">>, <<"b", "/">>}
Cards == [price_text : CardPrices \cup {None},
          model : {None, Raises, <<"3", "0", "8", " ", "S", "W">>},
          dealer : {None, Raises, <<"A", "H">>},
          terms : CardTerms,
          link : CardLinks]

InitCard ==
    /\ fin \in [card : Cards, base_url : BaseUrls]
    /\ fout = NoOffer
    /\ pc = "card"
    /\ file = MissingFile
    /\ seen_offers = {}
    /\ loaded = {}
    /\ file_at_start = file
    /\ before_crash = file
    /\ trail = <<>>
    /\ IdleCycle

ExtractCard ==
    /\ pc = "card"
    /\ fout' = extract_offer_details(fin.card, fin.base_url)
    /\ pc' = "extracted"
    /\ UNCHANGED <<file, site, cycle, seen_offers, page, total_filtered, new_page_offers, idx,
                   sent, pagelog, loaded, read_ok, file_at_start, saves_ok, prev, notified,
                   save_failed, undelivered, store_intact, before_crash, faults, fin, caught, trail,
                   all_offers>>

NextCard == ExtractCard

SpecCard == InitCard /\ [][NextCard]_vars

(***************************************************************************)
(* C22.  Per-field error isolation in extract_offer_details: a failure,    *)
(* a raised error included, in one of the fields model, dealer, terms and  *)
(* link leaves that field at its sentinel or absent value, the other       *)
(* fields are extracted and an offer is returned; only a missing or        *)
(* unparseable price drops the candidate.                                  *)
(***************************************************************************)
FieldFailed(x) == x \in {None, Raises}

C22_FieldErrorsIsolated ==
    pc = "extracted" =>
       LET card == fin.card
           priced == card.price_text # None /\ parse_german_price(card.price_text) # NoneInt
       IN /\ (fout = NoOffer) <=> ~priced
          /\ priced =>
                /\ fout.model = (IF FieldFailed(card.model) THEN UnknownModel ELSE card.model)
                /\ fout.dealer = (IF FieldFailed(card.dealer) THEN UnknownDealer ELSE card.dealer)
                /\ fout.terms = (IF FieldFailed(card.terms.text) THEN None ELSE card.terms.text)
                /\ fout.km_per_year = km_value(card.terms.km)
                /\ fout.link = (IF FieldFailed(card.link) THEN fin.base_url
                                ELSE link_of(card.link, fin.base_url))

(***************************************************************************)
(* get_offers_from_page with its two strategies, lines 87-129.  A soup is  *)
(* given by the containers strategy 1 locates (the substantial parents of  *)
(* the price texts, each once, 95-114) and by the elements the class-name  *)
(* pattern of strategy 2 matches (118).  The operator get_offers_from_page *)
(* of the page walk above is this function on a page whose cards all       *)
(* extract.                                                                *)
(***************************************************************************)
\* lines 108-110 and 121-123: the candidates that yield an offer with a price
extract_cards(cards, base_url) ==
    LET offers == [k \in 1..Len(cards) |-> extract_offer_details(cards[k], base_url)]
    IN SelectSeq(offers, LAMBDA offer : offer # NoOffer /\ offer.monthly_price # 0)

get_offers_by_strategy(soup, base_url) ==
    LET offers == extract_cards(soup.containers, base_url)
    IN IF offers = <<>>
       THEN [offers |-> extract_cards(soup.offer_cards, base_url), strategy2 |-> TRUE]
       ELSE [offers |-> offers, strategy2 |-> FALSE]

(***************************************************************************)
(* The specification of get_offers_from_page: one soup, one call.  A       *)
(* container of strategy 1 holds a price text by construction.             *)
(***************************************************************************)
GoodCard == [price_text |-> <<"9", "9", ",", "0", "0">> \o PerMonth,
             model |-> <<"3", "0", "8", " ", "S", "W">>, dealer |-> <<"A", "H">>,
             terms |-> NoTerms, link |-> <<"/", "x">>]
ZeroCard == [GoodCard EXCEPT !.price_text = <<"0", ",", "0", "0">> \o PerMonth]
RaisingCard == [GoodCard EXCEPT !.dealer = Raises]
NoPriceCard == [GoodCard EXCEPT !.price_text = None]
Containers == {GoodCard, ZeroCard, RaisingCard}
OfferCards == Containers \cup {NoPriceCard}
UpTo(S, n) == UNION {[1..k -> S] : k \in 0..n}

InitSoup ==
    /\ fin \in [containers : UpTo(Containers, MaxContainers),
                offer_cards : UpTo(OfferCards, MaxContainers),
                base_url : {<<"b">>}]
    /\ fout = [offers |-> <<>>, strategy2 |-> FALSE]
    /\ pc = "soup"
    /\ file = MissingFile
    /\ seen_offers = {}
    /\ loaded = {}
    /\ file_at_start = file
    /\ before_crash = file
    /\ trail = <<>>
    /\ IdleCycle

ScanSoup ==
    /\ pc = "soup"
    /\ fout' = get_offers_by_strategy(fin, fin.base_url)
    /\ pc' = "scanned"
    /\ UNCHANGED <<file, site, cycle, seen_offers, page, total_filtered, new_page_offers, idx,
                   sent, pagelog, loaded, read_ok, file_at_start, saves_ok, prev, notified,
                   save_failed, undelivered, store_intact, before_crash, faults, fin, caught, trail,
                   all_offers>>

NextSoup == ScanSoup

SpecSoup == InitSoup /\ [][NextSoup]_vars

(***************************************************************************)
(* C23.  In get_offers_from_page the fallback strategy runs only if the    *)
(* primary strategy found zero containers: with at least one substantial   *)
(* container located the fallback is not run, even if every primary        *)
(* candidate was dropped during field extraction.                          *)
(***************************************************************************)
C23_FallbackOnlyWithoutContainers ==
    pc = "scanned" => (fout.strategy2 <=> fin.containers = <<>>)

(***************************************************************************)
(* C24.  The only ids a check cycle adds to the Seen-Set are ids of offers *)
(* for which a notification was attempted in that same cycle: the marking  *)
(* of a page's filtered offers, which follows the per-page save, adds no   *)
(* id, so that the set in memory after it is the set that was just saved.  *)
(***************************************************************************)
C24_MarkAddsNothing ==
    /\ [](seen_offers \ loaded \subseteq Range(SentIds))
    /\ [][/\ pc \in {"fetch", "save_page"} => seen_offers' = seen_offers
          /\ (pc = "save_page" /\ pc' \in {"fetch", "final"} /\ saves_ok')
                => seen_offers' = StoreIds(file')]_vars

\* two new in-range offers of page 1 were notified and saved, the page's
\* filtered offers were marked, and the set in memory is the store
C24_Witness ==
    /\ pc \in {"fetch", "final"}
    /\ Len(pagelog) = 1
    /\ Len(sent) = 2
    /\ sent[1].id # sent[2].id
    /\ saves_ok
    /\ seen_offers = loaded \cup {sent[1].id, sent[2].id}
    /\ StoreIds(file) = seen_offers

====
